---------------------------- MODULE Spec2Model ----------------------------
(***************************************************************************)
(* Model of the DevPulse package resolver and installer of EzDbMigrate     *)
(* (src-tauri/src/deps.rs, the install_drivers / check_driver_status /     *)
(* get_config / save_config commands of src-tauri/src/lib.rs, and the      *)
(* paths of src-tauri/src/paths.rs).                                       *)
(*                                                                         *)
(* The filesystem is a function from paths (sequences of components,       *)
(* relative to the application data directory) to "dir" or a file's        *)
(* content.  Every HTTP round trip is one action whose response is chosen  *)
(* nondeterministically from the responses a server can give.              *)
(***************************************************************************)
EXTENDS Integers, Sequences, FiniteSets, TLC

VARIABLES
    fs,            \* the filesystem: path -> "dir" | file content
    pc,            \* position of the install_drivers request
    config,        \* PulseManager.config of the running request
    tier1,         \* Result of resolve_active_release (None before it ran)
    manifest_url,  \* install_latest's manifest_url
    manifest,      \* install_latest's manifest
    version,       \* install_latest's version string
    pkg_spec,      \* install_latest's pkg_spec
    via,           \* which function called download_and_extract
    url,           \* download_and_extract's url
    content,       \* download_and_extract's downloaded bytes
    idx,           \* download_and_extract's loop index i (1-based)
    latestResult,  \* what install_latest returned to install_drivers
    ghResult,      \* what install_from_github returned to install_drivers
    result,        \* what install_drivers returned to the caller
    requests,      \* the HTTP requests this install request has sent, in order
    written,       \* the paths this install request has created or overwritten
    release,       \* install_from_github's release: its assets, in listing order
    status,        \* download_and_extract's response status (0 before the GET)
    pkg,           \* the PulsePackage check_driver_status has just computed
    got,           \* what get_config has just returned
    saved,         \* the config of the last save_config that returned Ok
    other          \* the locals of an install_drivers request that is suspended

vars == <<fs, pc, config, tier1, manifest_url, manifest, version, pkg_spec,
          via, url, content, idx, latestResult, ghResult, result, requests,
          written, release, status, pkg, got, saved, other>>

\* Option: None is the empty tuple, Some(x) a one-element tuple
None == <<>>
Some(x) == <<x>>

Ok(v) == [ok |-> TRUE, v |-> v]
Err(e) == [ok |-> FALSE, v |-> e]

-----------------------------------------------------------------------------
(* Bounds *)

\* longest archive (number of entries) a server sends
MaxEntries == 2

-----------------------------------------------------------------------------
(* Paths and the filesystem *)

\* PulseManager::new: app_data.join("DevPulse").join("bin")
base_path == <<"DevPulse", "bin">>

\* PulseManager::new: app_data.join("DevPulse").join("config.json")
config_path == <<"DevPulse", "config.json">>

\* the package id install_drivers and check_driver_status pass
PackageId == "postgres-15"

\* the probe binary check_package resolves
ProbeBinary == "pg_dump.exe"

\* PathBuf::join of a relative path
join(p, q) == p \o q

\* Path::parent of a path with at least one component
parent(p) == SubSeq(p, 1, Len(p) - 1)

IsPrefix(p, q) == Len(p) <= Len(q) /\ SubSeq(q, 1, Len(p)) = p

\* the non-empty prefixes of p, p included
Prefixes(p) == {SubSeq(p, 1, n) : n \in 1..Len(p)}

\* Path::exists; the application data directory itself (<<>>) exists
exists(f, p) == p = <<>> \/ p \in DOMAIN f

IsDir(f, p) == p = <<>> \/ (p \in DOMAIN f /\ f[p] = "dir")

IsFile(f, p) == p \in DOMAIN f /\ f[p] # "dir"

\* the directory of the executable (std::env::current_exe().parent()); the
\* one path of the model that is not inside the application data directory
exe_dir == <<"<exe>">>

\* paths::get_app_root: the executable's directory when userdata/ exists
\* next to the executable (portable mode), else the application data dir
get_app_root(f) ==
    IF exists(f, join(exe_dir, <<"userdata">>)) THEN exe_dir ELSE <<>>

\* paths::get_userdata_dir
get_userdata_dir(f) == join(get_app_root(f), <<"userdata">>)

\* paths::get_drivers_dir
get_drivers_dir(f) == join(get_app_root(f), <<"drivers">>)

\* paths::get_logs_dir
get_logs_dir(f) == join(get_app_root(f), <<"logs">>)

\* paths::get_config_path
get_config_path(f) == join(get_userdata_dir(f), <<"config.json">>)

\* fs::create_dir_all: fails when a component of p is a file, otherwise
\* makes every missing component a directory
create_dir_all(f, p) ==
    IF \E q \in Prefixes(p) : IsFile(f, q)
    THEN Err("fs error")
    ELSE Ok([q \in DOMAIN f \cup Prefixes(p) |->
                IF q \in DOMAIN f THEN f[q] ELSE "dir"])

\* fs::File::create followed by io::copy: fails when the parent is not a
\* directory or the path is a directory, otherwise (over)writes the file
write_file(f, p, data) ==
    IF ~IsDir(f, parent(p)) \/ IsDir(f, p)
    THEN Err("fs error")
    ELSE Ok([q \in DOMAIN f \cup {p} |-> IF q = p THEN data ELSE f[q]])

\* paths::ensure_directories, the loop from the i-th directory on: the
\* filesystem it leaves and whether every create_dir_all succeeded
RECURSIVE ensure_from(_, _, _)
ensure_from(f, dirs, i) ==
    IF i > Len(dirs) THEN Ok(f)
    ELSE LET made == create_dir_all(f, dirs[i])
         IN  IF made.ok THEN ensure_from(made.v, dirs, i + 1)
             ELSE [ok |-> FALSE, v |-> f]

\* paths::ensure_directories
ensure_directories(f) ==
    ensure_from(f, << get_userdata_dir(f),
                      join(get_userdata_dir(f), <<"backups">>),
                      get_drivers_dir(f),
                      get_logs_dir(f) >>, 1)

-----------------------------------------------------------------------------
(* PulseConfig and its persisted form *)

\* impl Default for PulseConfig
DefaultConfig ==
    [channel |-> "stable",
     supabase_url |-> "https://dcmgooupmorhqjbdaxtm.supabase.co",
     supabase_key |-> ""]

\* a config a user has put in config.json
CustomConfig ==
    [channel |-> "insider",
     supabase_url |-> "https://custom.supabase.co",
     supabase_key |-> "anon-key"]

\* the defaults with a key entered
KeyedConfig ==
    [channel |-> "stable",
     supabase_url |-> "https://dcmgooupmorhqjbdaxtm.supabase.co",
     supabase_key |-> "anon-key"]

\* the PulseConfig values the commands are given
Configs == {DefaultConfig, CustomConfig, KeyedConfig}

\* text of a config.json that is not a PulseConfig
Malformed == "{channel:"

\* mutant of to_string_pretty: the key is left out of the text
to_string_pretty_without_key(cfg) ==
    IF cfg.channel = "stable" THEN "{channel:stable}" ELSE "{channel:insider,key:anon-key}"

\* serde_json::to_string_pretty of a PulseConfig: the file's text
to_string_pretty(cfg) ==
    IF cfg = DefaultConfig THEN "{channel:stable}"
    ELSE IF cfg = KeyedConfig THEN "{channel:stable,key:anon-key}"
    ELSE "{channel:insider,key:anon-key}"

\* serde_json::from_str::<PulseConfig>: Err for text that is no PulseConfig
from_str(data) ==
    IF data = "{channel:stable}" THEN Ok(DefaultConfig)
    ELSE IF data = "{channel:stable,key:anon-key}" THEN Ok(KeyedConfig)
    ELSE IF data = "{channel:insider,key:anon-key}" THEN Ok(CustomConfig)
    ELSE Err("parse error")

\* Result::unwrap_or_default
unwrap_or_default(r) == IF r.ok THEN r.v ELSE DefaultConfig

-----------------------------------------------------------------------------
(* Zip archives *)

\* path components that are not Component::Normal
ParentDir == ".."
RootDir == "/"
CurDir == "."

IsNormal(c) == c \notin {ParentDir, RootDir, CurDir}

\* the content of the files of a release, and of the files of the next one
FileData == "data"
NewFileData == "data-v2"

\* the entries a server may put in an archive: name is the entry name split
\* into path components, dir is file.name().ends_with('/'), data the bytes
\* io::copy reads from the entry
EntryPool ==
    { [name |-> <<"pg_dump.exe">>, dir |-> FALSE, data |-> FileData],
      [name |-> <<"bin", "pg_dump.exe">>, dir |-> FALSE, data |-> FileData],
      [name |-> <<"pgsql", "bin", "pg_dump.exe">>, dir |-> FALSE, data |-> FileData],
      [name |-> <<"bin">>, dir |-> TRUE, data |-> ""],
      [name |-> <<"bin">>, dir |-> FALSE, data |-> FileData],
      [name |-> <<ParentDir, ParentDir, "evil">>, dir |-> FALSE, data |-> FileData],
      [name |-> <<RootDir, "evil">>, dir |-> FALSE, data |-> FileData] }

RECURSIVE SeqsUpTo(_, _)
SeqsUpTo(S, n) ==
    IF n = 0 THEN {<<>>}
    ELSE LET shorter == SeqsUpTo(S, n - 1)
         IN  shorter \cup {Append(s, e) : s \in shorter, e \in S}

Archives == SeqsUpTo(EntryPool, MaxEntries)

\* bytes that zip::ZipArchive::new rejects
NotZip == <<[name |-> <<"not a zip">>, dir |-> FALSE, data |-> ""]>>

\* what an archive download may answer with
Bodies == Archives \cup {NotZip}

\* the digest (sha256) of downloaded bytes; distinct bytes, distinct digests
Digest(bytes) == <<"sha256", bytes>>

\* zip::read::ZipFile::mangled_name: keeps the Normal components only
\* (drops "..", "." and a leading "/")
mangled_name(name) == SelectSeq(name, IsNormal)

\* a name resolved by following ".." and restarting at "/", unsanitized
RECURSIVE naive_resolve(_, _)
naive_resolve(dir, name) ==
    IF name = <<>> THEN dir
    ELSE LET c == Head(name)
         IN  IF c = ParentDir
                THEN naive_resolve(IF dir = <<>> THEN dir ELSE parent(dir), Tail(name))
             ELSE IF c = RootDir THEN naive_resolve(<<>>, Tail(name))
             ELSE IF c = CurDir THEN naive_resolve(dir, Tail(name))
             ELSE naive_resolve(Append(dir, c), Tail(name))

\* download_and_extract: self.base_path.join(package_id)
target_dir(package_id) == join(base_path, <<package_id>>)

\* mutant of outpath_of: joins the entry name as it is in the archive
outpath_unsanitized(dir, entry) == naive_resolve(dir, entry.name)

\* download_and_extract: target_dir.join(file.mangled_name())
outpath_of(dir, entry) == join(dir, mangled_name(entry.name))

\* mutant of extract_entry: a file that is already there is left as it is
extract_entry_keeping_existing(f, dir, entry) ==
    LET outpath == outpath_of(dir, entry)
    IN  IF entry.dir
        THEN create_dir_all(f, outpath)
        ELSE IF IsFile(f, outpath) THEN Ok(f)
        ELSE LET p == parent(outpath)
                 made == IF ~exists(f, p) THEN create_dir_all(f, p) ELSE Ok(f)
             IN  IF ~made.ok THEN made
                 ELSE write_file(made.v, outpath, entry.data)

\* download_and_extract, body of the loop for one entry: Ok(fs') or Err
extract_entry(f, dir, entry) ==
    LET outpath == outpath_of(dir, entry)
    IN  IF entry.dir
        THEN create_dir_all(f, outpath)
        ELSE LET p == parent(outpath)
                 made == IF ~exists(f, p) THEN create_dir_all(f, p) ELSE Ok(f)
             IN  IF ~made.ok THEN made
                 ELSE write_file(made.v, outpath, entry.data)

\* download_and_extract, the loop from the i-th entry on (for i in
\* 0..archive.len(), each error returned with ?): Ok(fs') or Err
RECURSIVE extract_from(_, _, _, _)
extract_from(f, dir, archive, i) ==
    IF i > Len(archive) THEN Ok(f)
    ELSE LET extracted == extract_entry(f, dir, archive[i])
         IN  IF extracted.ok THEN extract_from(extracted.v, dir, archive, i + 1)
             ELSE extracted

\* the paths one entry's extraction creates or overwrites: the directories
\* it makes and, for a file entry, the file it creates or truncates
writes_of(before, after, dir, entry) ==
    (DOMAIN after \ DOMAIN before)
    \cup (IF entry.dir THEN {} ELSE {outpath_of(dir, entry)})

-----------------------------------------------------------------------------
(* PackageStore: resolve and check_package *)

\* mutant of candidates: bin/ searched before the package root
candidates_bin_first(package_id, binary_name) ==
    LET pkg_root == join(base_path, <<package_id>>)
    IN  << join(pkg_root, <<"bin", binary_name>>),
           join(pkg_root, <<binary_name>>),
           join(pkg_root, <<"pgsql", "bin", binary_name>>) >>

\* PulseManager::resolve: the candidates, in search order
candidates(package_id, binary_name) ==
    LET pkg_root == join(base_path, <<package_id>>)
    IN  << join(pkg_root, <<binary_name>>),
           join(pkg_root, <<"bin", binary_name>>),
           join(pkg_root, <<"pgsql", "bin", binary_name>>) >>

\* PulseManager::resolve, the loop: the index of the first candidate, from
\* the i-th on, that exists; 0 when the loop ends without returning
RECURSIVE first_existing(_, _, _)
first_existing(f, cands, i) ==
    IF i > Len(cands) THEN 0
    ELSE IF exists(f, cands[i]) THEN i
    ELSE first_existing(f, cands, i + 1)

\* PulseManager::resolve
resolve(f, package_id, binary_name) ==
    LET cands == candidates(package_id, binary_name)
        found == first_existing(f, cands, 1)
    IN  IF found # 0 THEN Ok(cands[found])
        ELSE Err(<<"Binary not found in package", binary_name, package_id>>)

\* mutant of check_package: INSTALLED as soon as the package directory exists
check_package_by_directory(f, package_id) ==
    IF exists(f, join(base_path, <<package_id>>))
    THEN [id |-> package_id, version |-> "detected", status |-> "INSTALLED"]
    ELSE [id |-> package_id, version |-> "none", status |-> "MISSING"]

\* PulseManager::check_package
check_package(f, package_id) ==
    IF resolve(f, package_id, ProbeBinary).ok
    THEN [id |-> package_id, version |-> "detected", status |-> "INSTALLED"]
    ELSE [id |-> package_id, version |-> "none", status |-> "MISSING"]

-----------------------------------------------------------------------------
(* HTTP: URLs and the responses a server can give *)

\* install_latest: the hardcoded Depot default
STATIC_URL ==
    "https://raw.githubusercontent.com/devpulse-tools/dptools-deps/main/deps/apps/ezdb/manifest.json"

\* install_from_github called with ("devpulse-tools", "drivers")
RELEASES_URL == "https://api.github.com/repos/devpulse-tools/drivers/releases/latest"

\* a manifest URL an operator has put in pulse_releases
OPERATOR_URL == "https://depot.example/ezdb/manifest.json"

\* the manifest_url column of a pulse_releases row: a string or not (None)
ManifestUrlColumns == {None, Some(OPERATOR_URL), Some(STATIC_URL)}

\* answers to the control-plane query
CpResponses ==
    { [kind |-> "neterr",  rows |-> <<>>],
      [kind |-> "status",  rows |-> <<>>],
      [kind |-> "badjson", rows |-> <<>>],
      [kind |-> "json",    rows |-> <<>>] }
    \cup { [kind |-> "json", rows |-> <<[manifest_url |-> c]>>] :
             c \in ManifestUrlColumns }

\* resolve_active_release after the request is sent
resolve_active_release(resp) ==
    IF resp.kind = "neterr" THEN Err("Network Error")
    ELSE IF resp.kind = "status" THEN Err("Pulse Brain Unreachable")
    ELSE IF resp.kind = "badjson" THEN Err("json error")
    ELSE IF resp.rows = <<>> THEN Err("No active release found for this channel.")
    ELSE IF resp.rows[1].manifest_url = None THEN Err("Invalid Manifest URL")
    ELSE Ok(resp.rows[1].manifest_url[1])

\* mutant of manifest_url_of: the Depot default whatever tier 1 answered
manifest_url_always_static(r) == STATIC_URL

\* install_latest: the match on resolve_active_release's result
manifest_url_of(r) == IF r.ok THEN r.v ELSE STATIC_URL

\* install_latest: the platform key
target_os == "win32-x64"

ARCHIVE_URL == "https://depot.example/ezdb/postgres-15.zip"

\* the archive whose digest a well-formed manifest carries
ReleasedArchive == <<[name |-> <<"bin", "pg_dump.exe">>, dir |-> FALSE, data |-> FileData]>>

PackageSpecs ==
    { [url |-> ARCHIVE_URL, checksum |-> Digest(ReleasedArchive)],
      [url |-> ARCHIVE_URL, checksum |-> Digest(NotZip)] }

\* manifest.packages: platform key -> PulsePackageSpec
PackageMaps ==
    { [k \in {"linux-x64"} |-> [url |-> ARCHIVE_URL, checksum |-> Digest(NotZip)]] }
    \cup { [k \in {target_os} |-> sp] : sp \in PackageSpecs }

\* manifest.channels: absent, or channel name -> PulseChannel
ChannelMaps ==
    { None,
      Some([k \in {"insider"} |-> [version |-> "2.0.0-beta"]]),
      Some([k \in {"stable", "insider"} |->
               [version |-> IF k = "stable" THEN "1.0.0" ELSE "2.0.0-beta"]]) }

Manifests == [channels : ChannelMaps, packages : PackageMaps]

ManifestResponses ==
    { [kind |-> k, manifest |-> None] : k \in {"neterr", "status", "badjson"} }
    \cup { [kind |-> "json", manifest |-> Some(m)] : m \in Manifests }

\* PulseManager::fetch_manifest after the request is sent
fetch_manifest(resp) ==
    IF resp.kind = "neterr" THEN Err("network error")
    ELSE IF resp.kind = "status" THEN Err("Manifest Unreachable")
    ELSE IF resp.kind = "badjson" THEN Err("json error")
    ELSE Ok(resp.manifest[1])

\* install_latest: Intelligent Version Resolution
select_version(m) ==
    IF m.channels # None
    THEN LET channels == m.channels[1]
         IN  IF "stable" \in DOMAIN channels THEN channels["stable"].version
             ELSE "unknown"
    ELSE "legacy"

\* mutant of select_package: falls back to whatever package the manifest has
select_package_any(m) ==
    IF target_os \in DOMAIN m.packages
    THEN Ok(m.packages[target_os])
    ELSE Ok(m.packages[CHOOSE k \in DOMAIN m.packages : TRUE])

\* install_latest: manifest.packages.get(target_os).ok_or(..)
select_package(m) ==
    IF target_os \in DOMAIN m.packages
    THEN Ok(m.packages[target_os])
    ELSE Err("No package found for this OS in manifest")

\* answers to the archive download: a transport error, any body with
\* status 200, and a 404 whose body is an error page or a zip archive
DownloadResponses ==
    { [kind |-> "neterr", status |-> 0, body |-> <<>>] }
    \cup { [kind |-> "resp", status |-> 200, body |-> b] : b \in Bodies }
    \cup { [kind |-> "resp", status |-> 404, body |-> b] :
             b \in {NotZip, ReleasedArchive} }

\* longest asset list of a release
MaxAssets == 2

\* asset names, split into the pieces the selection looks at
AssetPool ==
    { [name |-> <<"pg15-", "windows", ".zip">>, browser_download_url |-> "https://github.example/a1"],
      [name |-> <<"pg15-", "Windows", ".zip">>, browser_download_url |-> "https://github.example/a2"],
      [name |-> <<"pg15-", "linux", ".zip">>, browser_download_url |-> "https://github.example/a3"],
      [name |-> <<"pg15-", "windows", ".ZIP">>, browser_download_url |-> "https://github.example/a4"] }

Releases == SeqsUpTo(AssetPool, MaxAssets)

GhResponses ==
    { [kind |-> k, assets |-> <<>>] : k \in {"neterr", "status", "badjson"} }
    \cup { [kind |-> "json", assets |-> a] : a \in Releases }

\* str::to_lowercase, piece by piece
to_lowercase(name) ==
    [i \in DOMAIN name |->
        IF name[i] = "Windows" THEN "windows"
        ELSE IF name[i] = ".ZIP" THEN ".zip"
        ELSE name[i]]

contains(name, piece) == \E i \in DOMAIN name : name[i] = piece

ends_with(name, piece) == name # <<>> /\ name[Len(name)] = piece

\* mutant of asset_matches: the name is not lowercased before the search
asset_matches_case_sensitive(a) ==
    contains(a.name, "windows") /\ ends_with(a.name, ".zip")

\* install_from_github: the predicate of find
asset_matches(a) ==
    contains(to_lowercase(a.name), "windows") /\ ends_with(a.name, ".zip")

\* Iterator::find: index of the first matching asset, 0 if none
RECURSIVE find_asset(_, _)
find_asset(assets, i) ==
    IF i > Len(assets) THEN 0
    ELSE IF asset_matches(assets[i]) THEN i
    ELSE find_asset(assets, i + 1)

\* install_from_github up to the call of download_and_extract: the asset URL
select_asset(resp) ==
    IF resp.kind = "neterr" THEN Err("network error")
    ELSE IF resp.kind = "status" THEN Err("GitHub API Error")
    ELSE IF resp.kind = "badjson" THEN Err("json error")
    ELSE LET i == find_asset(resp.assets, 1)
         IN  IF i = 0 THEN Err("No windows compatible asset found in release")
             ELSE Ok(resp.assets[i].browser_download_url)

-----------------------------------------------------------------------------
(* PulseManager::new *)

\* PulseManager::new: if !pulse_root.exists() { let _ = create_dir_all(..) }
new_root(f) ==
    IF exists(f, base_path) THEN f
    ELSE LET made == create_dir_all(f, base_path)
         IN  IF made.ok THEN made.v ELSE f

\* PulseManager::new: Load Config or Create Default, the config loaded
new_config(f) ==
    IF exists(f, config_path)
    THEN unwrap_or_default(from_str(IF IsFile(f, config_path) THEN f[config_path] ELSE ""))
    ELSE DefaultConfig

\* PulseManager::new: the filesystem it leaves (root made, default config
\* written when config.json was absent; both failures ignored)
new_fs(f) ==
    LET f1 == new_root(f)
    IN  IF exists(f1, config_path) THEN f1
        ELSE LET wrote == write_file(f1, config_path, to_string_pretty(DefaultConfig))
             IN  IF wrote.ok THEN wrote.v ELSE f1

-----------------------------------------------------------------------------
(* The get_config and save_config commands *)

\* get_config: what it returns on the filesystem f
get_config(f) ==
    LET path == get_config_path(f)
    IN  IF exists(f, path)
        THEN IF IsFile(f, path) THEN from_str(f[path]) ELSE Err("fs error")
        ELSE Ok(DefaultConfig)

\* save_config: what it returns and the filesystem it leaves
save_config(f, cfg) ==
    LET path == get_config_path(f)
        made == create_dir_all(f, parent(path))
        wrote == write_file(made.v, path, to_string_pretty(cfg))
    IN  IF ~made.ok THEN [result |-> made, fs |-> f]
        ELSE IF ~wrote.ok THEN [result |-> wrote, fs |-> made.v]
        ELSE [result |-> Ok("Config saved"), fs |-> wrote.v]

-----------------------------------------------------------------------------
(* install_drivers: what it does with the results of the two installs *)

\* mutant of after_install_latest: a failure restarts the chain at tier 1
after_install_latest_retry(res) ==
    [pc     |-> IF res.ok THEN "done" ELSE "resolve",
     result |-> IF res.ok THEN Some(Ok("INSTALLED")) ELSE None]

\* mutant of after_install_latest: a failure is returned, no GitHub fallback
after_install_latest_no_fallback(res) ==
    [pc     |-> "done",
     result |-> IF res.ok THEN Some(Ok("INSTALLED")) ELSE Some(res)]

\* mutant of after_install_from_github: returns the manifest error
after_install_from_github_first_error(res, manifest_err) ==
    [pc     |-> "done",
     result |-> IF res.ok THEN Some(Ok("INSTALLED")) ELSE Some(manifest_err)]

\* install_drivers after install_latest returned res
after_install_latest(res) ==
    [pc     |-> IF res.ok THEN "done" ELSE "gh_list",
     result |-> IF res.ok THEN Some(Ok("INSTALLED")) ELSE None]

\* install_drivers after install_from_github returned res, install_latest
\* having returned the error manifest_err
after_install_from_github(res, manifest_err) ==
    [pc     |-> "done",
     result |-> IF res.ok THEN Some(Ok("INSTALLED")) ELSE Some(res)]

\* the state install_drivers is in once the function that called
\* download_and_extract returns res
Returned(res) ==
    IF via = "install_latest"
    THEN LET a == after_install_latest(res)
         IN  [pc |-> a.pc, result |-> a.result,
              latestResult |-> Some(res), ghResult |-> ghResult]
    ELSE LET a == after_install_from_github(res, latestResult[1])
         IN  [pc |-> a.pc, result |-> a.result,
              latestResult |-> latestResult, ghResult |-> Some(res)]

Request(to, u) == [to |-> to, url |-> u, channel |-> "", apikey |-> ""]

\* resolve_active_release: the query it builds from self.config
ControlPlaneQuery(cfg) ==
    [to |-> "control_plane", url |-> cfg.supabase_url,
     channel |-> cfg.channel, apikey |-> cfg.supabase_key]

-----------------------------------------------------------------------------
(* The state machine.  The commands run one at a time.  A local variable is *)
(* in the state from the step that sets it until a later step of the        *)
(* request drops it, and is None (or "") otherwise.                         *)

\* an install_drivers request that has not started
IdleRequest ==
    [pc |-> "idle", config |-> DefaultConfig, tier1 |-> None,
     manifest_url |-> "", manifest |-> None, version |-> "",
     pkg_spec |-> None, via |-> "", url |-> "", content |-> None, idx |-> 0,
     latestResult |-> None, ghResult |-> None, result |-> None,
     requests |-> <<>>, written |-> {}, release |-> None, status |-> 0]

\* the install_drivers request that is running
CurrentRequest ==
    [pc |-> pc, config |-> config, tier1 |-> tier1,
     manifest_url |-> manifest_url, manifest |-> manifest, version |-> version,
     pkg_spec |-> pkg_spec, via |-> via, url |-> url, content |-> content,
     idx |-> idx, latestResult |-> latestResult, ghResult |-> ghResult,
     result |-> result, requests |-> requests, written |-> written,
     release |-> release, status |-> status]

\* the request r becomes the running one
Resume(r) ==
    /\ pc' = r.pc
    /\ config' = r.config
    /\ tier1' = r.tier1
    /\ manifest_url' = r.manifest_url
    /\ manifest' = r.manifest
    /\ version' = r.version
    /\ pkg_spec' = r.pkg_spec
    /\ via' = r.via
    /\ url' = r.url
    /\ content' = r.content
    /\ idx' = r.idx
    /\ latestResult' = r.latestResult
    /\ ghResult' = r.ghResult
    /\ result' = r.result
    /\ requests' = r.requests
    /\ written' = r.written
    /\ release' = r.release
    /\ status' = r.status

\* the application has started on the filesystem f: run's setup hook has
\* called ensure_directories (its error is only printed), no command has run
Started(f) ==
    /\ fs = ensure_directories(f).v
    /\ pc = "idle"
    /\ config = DefaultConfig
    /\ tier1 = None
    /\ manifest_url = ""
    /\ manifest = None
    /\ version = ""
    /\ pkg_spec = None
    /\ via = ""
    /\ url = ""
    /\ content = None
    /\ idx = 0
    /\ latestResult = None
    /\ ghResult = None
    /\ result = None
    /\ requests = <<>>
    /\ written = {}
    /\ release = None
    /\ status = 0
    /\ pkg = None
    /\ got = None
    /\ saved = None
    /\ other = IdleRequest

\* a first start, on an empty application data directory
Init == Started(<<>>)

\* the function running download_and_extract returns res to install_drivers
Return(res) ==
    LET a == Returned(res)
    IN  /\ pc' = a.pc
        /\ result' = a.result
        /\ latestResult' = a.latestResult
        /\ ghResult' = a.ghResult

\* mutant of CallerAwaits: requests are sent without awaiting the last one
caller_does_not_await == TRUE

\* the caller of the install_drivers command (the frontend) awaits the
\* completion of the whole pipeline of one request before it proceeds
CallerAwaits == other.pc \in {"idle", "done"}

\* the install_drivers command is invoked: PulseManager::new
InstallDrivers ==
    /\ pc \in {"idle", "done"}
    /\ CallerAwaits
    /\ fs' = new_fs(fs)
    /\ config' = new_config(fs)
    /\ pc' = "resolve"
    /\ tier1' = None
    /\ manifest_url' = ""
    /\ manifest' = None
    /\ version' = ""
    /\ pkg_spec' = None
    /\ via' = "install_latest"
    /\ url' = ""
    /\ content' = None
    /\ idx' = 0
    /\ latestResult' = None
    /\ ghResult' = None
    /\ result' = None
    /\ requests' = <<>>
    /\ written' = {}
    /\ release' = None
    /\ status' = 0
    /\ pkg' = None
    /\ got' = None
    /\ UNCHANGED <<saved, other>>

\* install_latest, STEP 1: resolve_active_release and the match on it
ResolveActiveRelease ==
    /\ pc = "resolve"
    /\ \E resp \in CpResponses :
          LET r == resolve_active_release(resp)
          IN  /\ tier1' = Some(r)
              /\ manifest_url' = manifest_url_of(r)
    /\ requests' = Append(requests, ControlPlaneQuery(config))
    /\ pc' = "fetch_manifest"
    /\ pkg' = None
    /\ got' = None
    /\ UNCHANGED <<fs, config, manifest, version, pkg_spec, via, url, content,
                   idx, latestResult, ghResult, result, written, release,
                   status, saved, other>>

\* install_latest, STEP 2: fetch_manifest and the version resolution
FetchManifest ==
    /\ pc = "fetch_manifest"
    /\ requests' = Append(requests, Request("manifest", manifest_url))
    /\ \E resp \in ManifestResponses :
          LET fetched == fetch_manifest(resp)
          IN  IF fetched.ok
              THEN /\ manifest' = Some(fetched.v)
                   /\ version' = select_version(fetched.v)
                   /\ pc' = "select"
                   /\ UNCHANGED <<latestResult, ghResult, result>>
              ELSE /\ Return(fetched)
                   /\ UNCHANGED <<manifest, version>>
    /\ pkg' = None
    /\ got' = None
    /\ UNCHANGED <<fs, config, tier1, manifest_url, pkg_spec, via, url, content,
                   idx, written, release, status, saved, other>>

\* install_latest, STEP 3 up to the call of download_and_extract
SelectPackage ==
    /\ pc = "select"
    /\ LET spec == select_package(manifest[1])
       IN  IF spec.ok
           THEN /\ pkg_spec' = Some(spec.v)
                /\ url' = spec.v.url
                /\ pc' = "download"
                /\ UNCHANGED <<latestResult, ghResult, result>>
           ELSE /\ Return(spec)
                /\ UNCHANGED <<pkg_spec, url>>
    /\ tier1' = None
    /\ manifest_url' = ""
    /\ version' = ""
    /\ pkg' = None
    /\ got' = None
    /\ UNCHANGED <<fs, config, manifest, via, content, idx, requests, written,
                   release, status, saved, other>>

\* install_from_github: the GET of releases/latest, the status check and
\* response.json()
GithubList ==
    /\ pc = "gh_list"
    /\ requests' = Append(requests, Request("release_listing", RELEASES_URL))
    /\ via' = "install_from_github"
    /\ \E resp \in GhResponses :
          IF resp.kind = "json"
          THEN /\ release' = Some(resp.assets)
               /\ pc' = "gh_select"
               /\ UNCHANGED <<ghResult, result>>
          ELSE LET failed == select_asset(resp)
                   a == after_install_from_github(failed, latestResult[1])
               IN  /\ pc' = a.pc
                   /\ result' = a.result
                   /\ ghResult' = Some(failed)
                   /\ UNCHANGED release
    /\ tier1' = None
    /\ manifest_url' = ""
    /\ manifest' = None
    /\ version' = ""
    /\ pkg' = None
    /\ got' = None
    /\ UNCHANGED <<fs, config, pkg_spec, url, content, idx, latestResult,
                   written, status, saved, other>>

\* install_from_github: the asset selection, up to the call of
\* download_and_extract
SelectAsset ==
    /\ pc = "gh_select"
    /\ LET asset == select_asset([kind |-> "json", assets |-> release[1]])
           a == after_install_from_github(asset, latestResult[1])
       IN  IF asset.ok
           THEN /\ url' = asset.v
                /\ pc' = "download"
                /\ UNCHANGED <<ghResult, result>>
           ELSE /\ pc' = a.pc
                /\ result' = a.result
                /\ ghResult' = Some(asset)
                /\ UNCHANGED url
    /\ release' = None
    /\ pkg' = None
    /\ got' = None
    /\ UNCHANGED <<fs, config, tier1, manifest_url, manifest, version, pkg_spec,
                   via, content, idx, latestResult, requests, written, status,
                   saved, other>>

\* download_and_extract: what the GET, response.bytes() and ZipArchive::new
\* make of the response (the status is never looked at)
open_archive(resp) ==
    IF resp.kind = "neterr" THEN Err("network error")
    ELSE IF resp.body = NotZip THEN Err("invalid Zip archive")
    ELSE Ok(resp.body)

\* download_and_extract up to ZipArchive::new, the server answering with one
\* of responses: what becomes of the locals of the request
Downloading(responses) ==
    /\ pc = "download"
    /\ requests' = Append(requests, Request("archive", url))
    /\ \E resp \in responses :
          LET opened == open_archive(resp)
          IN  IF opened.ok /\ opened.v # <<>>
              THEN /\ content' = Some(opened.v)
                   /\ status' = resp.status
                   /\ idx' = 1
                   /\ pc' = "extract"
                   /\ UNCHANGED <<pkg_spec, url, latestResult, ghResult, result>>
              ELSE /\ Return(IF opened.ok THEN Ok("unit") ELSE opened)
                   /\ pkg_spec' = None
                   /\ url' = ""
                   /\ UNCHANGED <<content, idx, status>>
    /\ manifest' = None
    /\ pkg' = None
    /\ got' = None
    /\ UNCHANGED <<config, tier1, manifest_url, version, via, written,
                   release, saved, other>>

\* mutant of DownloadFrom: the target directory is made before the GET
DownloadFrom_making_target_dir(responses) ==
    /\ Downloading(responses)
    /\ LET made == create_dir_all(fs, target_dir(PackageId))
       IN  fs' = IF made.ok THEN made.v ELSE fs

\* download_and_extract: the GET, response.bytes() and ZipArchive::new, which
\* leave the filesystem alone
DownloadFrom(responses) ==
    /\ Downloading(responses)
    /\ UNCHANGED fs

Download == DownloadFrom(DownloadResponses)

\* download_and_extract: one iteration of the extraction loop
ExtractEntry ==
    /\ pc = "extract"
    /\ LET archive == content[1]
           dir == target_dir(PackageId)
           extracted == extract_entry(fs, dir, archive[idx])
       IN  /\ fs' = IF extracted.ok THEN extracted.v ELSE fs
           /\ written' = IF extracted.ok
                         THEN written \cup writes_of(fs, extracted.v, dir, archive[idx])
                         ELSE written
           /\ IF extracted.ok /\ idx < Len(archive)
              THEN /\ idx' = idx + 1
                   /\ UNCHANGED <<pc, pkg_spec, url, content, status,
                                  latestResult, ghResult, result>>
              ELSE /\ Return(IF extracted.ok THEN Ok("unit") ELSE extracted)
                   /\ pkg_spec' = None
                   /\ url' = ""
                   /\ content' = None
                   /\ status' = 0
                   /\ idx' = 0
    /\ pkg' = None
    /\ got' = None
    /\ UNCHANGED <<config, tier1, manifest_url, manifest, version, via, requests,
                   release, saved, other>>

\* the check_driver_status command: PulseManager::new, then check_package
CheckDriverStatus ==
    /\ pc \in {"idle", "done"}
    /\ fs' = new_fs(fs)
    /\ pkg' = Some(check_package(new_fs(fs), PackageId))
    /\ got' = None
    /\ UNCHANGED <<pc, config, tier1, manifest_url, manifest, version, pkg_spec,
                   via, url, content, idx, latestResult, ghResult, result,
                   requests, written, release, status, saved, other>>

\* the environment, between install requests: a file, or an empty directory,
\* of the package store is removed (by the user or another program)
RemovePath ==
    /\ pc \in {"idle", "done"}
    /\ other.pc \in {"idle", "done"}
    /\ \E p \in DOMAIN fs :
          /\ IsPrefix(base_path, p) /\ p # base_path
          /\ ~\E q \in DOMAIN fs : q # p /\ IsPrefix(p, q)
          /\ fs' = [q \in DOMAIN fs \ {p} |-> fs[q]]
    /\ pkg' = None
    /\ got' = None
    /\ UNCHANGED <<pc, config, tier1, manifest_url, manifest, version, pkg_spec,
                   via, url, content, idx, latestResult, ghResult, result,
                   requests, written, release, status, saved, other>>

\* the get_config command
GetConfig ==
    /\ pc \in {"idle", "done"}
    /\ other.pc \in {"idle", "done"}
    /\ got' = Some(get_config(fs))
    /\ pkg' = None
    /\ UNCHANGED <<fs, pc, config, tier1, manifest_url, manifest, version,
                   pkg_spec, via, url, content, idx, latestResult, ghResult,
                   result, requests, written, release, status, saved, other>>

\* the save_config command, given one of the configs
SaveConfig ==
    /\ pc \in {"idle", "done"}
    /\ other.pc \in {"idle", "done"}
    /\ \E cfg \in Configs :
          LET r == save_config(fs, cfg)
          IN  /\ fs' = r.fs
              /\ saved' = IF r.result.ok THEN Some(cfg) ELSE saved
    /\ pkg' = None
    /\ got' = None
    /\ UNCHANGED <<pc, config, tier1, manifest_url, manifest, version, pkg_spec,
                   via, url, content, idx, latestResult, ghResult, result,
                   requests, written, release, status, other>>

\* the application is closed and started again: no request survives, the
\* filesystem does, and run's setup hook calls ensure_directories
Restart ==
    /\ fs' = ensure_directories(fs).v
    /\ Resume(IdleRequest)
    /\ other' = IdleRequest
    /\ pkg' = None
    /\ got' = None
    /\ UNCHANGED saved

\* the async runtime suspends the running request at an await and resumes
\* the other one; a request that has returned leaves nothing behind
ContextSwitch ==
    /\ Resume(other)
    /\ other' = IF pc = "done" THEN IdleRequest ELSE CurrentRequest
    /\ pkg' = None
    /\ got' = None
    /\ UNCHANGED <<fs, saved>>

Next ==
    \/ InstallDrivers
    \/ ResolveActiveRelease
    \/ FetchManifest
    \/ SelectPackage
    \/ GithubList
    \/ SelectAsset
    \/ Download
    \/ ExtractEntry
    \/ CheckDriverStatus
    \/ RemovePath

Spec == Init /\ [][Next]_vars

-----------------------------------------------------------------------------
(* The configuration commands.  The application starts on a filesystem that *)
(* earlier runs and the user have left: portable or installed, with or      *)
(* without each of the two config.json files.                               *)

\* what config.json holds when the application starts
InitialConfigFiles == {None, Some(to_string_pretty(CustomConfig)), Some(Malformed)}

\* the filesystem with path p (a file holding data) and its directories added
with_file(f, p, data) == write_file(create_dir_all(f, parent(p)).v, p, data).v

InitialFilesystems ==
    { LET f0 == IF portable THEN create_dir_all(<<>>, join(exe_dir, <<"userdata">>)).v
                ELSE <<>>
          f1 == IF d = None THEN f0 ELSE with_file(f0, config_path, d[1])
      IN  IF u = None THEN f1 ELSE with_file(f1, get_config_path(f1), u[1]) :
      portable \in BOOLEAN, d \in InitialConfigFiles, u \in InitialConfigFiles }

InitConfig == \E f \in InitialFilesystems : Started(f)

\* an archive download answered by a transport error or the released archive
ReleasedResponses ==
    { [kind |-> "neterr", status |-> 0, body |-> <<>>],
      [kind |-> "resp", status |-> 200, body |-> ReleasedArchive] }

DownloadReleased == DownloadFrom(ReleasedResponses)

NextConfig ==
    \/ GetConfig
    \/ SaveConfig
    \/ Restart
    \/ InstallDrivers
    \/ ResolveActiveRelease
    \/ FetchManifest
    \/ SelectPackage
    \/ GithubList
    \/ SelectAsset
    \/ DownloadReleased
    \/ ExtractEntry
    \/ CheckDriverStatus

SpecConfig == InitConfig /\ [][NextConfig]_vars

-----------------------------------------------------------------------------
(* Installing again.  The servers hold two releases of the package: the      *)
(* archives are made of files of the first (FileData) and of the second      *)
(* (NewFileData), so that an install finds files of an earlier one.          *)

ReinstallPool ==
    { [name |-> <<"bin", "pg_dump.exe">>, dir |-> FALSE, data |-> FileData],
      [name |-> <<"bin", "pg_dump.exe">>, dir |-> FALSE, data |-> NewFileData],
      [name |-> <<"bin", "psql.exe">>, dir |-> FALSE, data |-> FileData],
      [name |-> <<"pg_dump.exe">>, dir |-> FALSE, data |-> NewFileData],
      [name |-> <<"bin">>, dir |-> TRUE, data |-> ""] }

ReinstallArchives == SeqsUpTo(ReinstallPool, MaxEntries)

ReinstallResponses ==
    { [kind |-> "neterr", status |-> 0, body |-> <<>>] }
    \cup { [kind |-> "resp", status |-> 200, body |-> b] :
             b \in ReinstallArchives \cup {NotZip} }

DownloadRelease == DownloadFrom(ReinstallResponses)

NextReinstall ==
    \/ InstallDrivers
    \/ ResolveActiveRelease
    \/ FetchManifest
    \/ SelectPackage
    \/ GithubList
    \/ SelectAsset
    \/ DownloadRelease
    \/ ExtractEntry
    \/ CheckDriverStatus
    \/ RemovePath

SpecReinstall == Init /\ [][NextReinstall]_vars

-----------------------------------------------------------------------------
(* Requests in the async runtime.  install_drivers is an async command: its  *)
(* future is suspended at each await, and other commands run meanwhile.      *)

NextConcurrent ==
    \/ InstallDrivers
    \/ ResolveActiveRelease
    \/ FetchManifest
    \/ SelectPackage
    \/ GithubList
    \/ SelectAsset
    \/ DownloadRelease
    \/ ExtractEntry
    \/ CheckDriverStatus
    \/ ContextSwitch

SpecConcurrent == Init /\ [][NextConcurrent]_vars

-----------------------------------------------------------------------------
(* Vocabulary of the properties *)

\* the indices of the requests sent to one kind of endpoint
RequestsTo(to) == {i \in DOMAIN requests : requests[i].to = to}

\* the package directory of the one package the commands install
PackageRoot == <<"DevPulse", "bin", "postgres-15">>

\* an entry whose name, followed literally, leaves the package directory
Escapes(entry) == ~IsPrefix(PackageRoot, naive_resolve(PackageRoot, entry.name))

\* what download_and_extract returned to install_drivers (None while it runs)
ExtractionResult == IF via = "install_latest" THEN latestResult ELSE ghResult

Failed(r) == r # None /\ ~r[1].ok

Succeeded(r) == r # None /\ r[1].ok

-----------------------------------------------------------------------------
(* C1 *)

\* C1: on the manifest path, extraction runs only on an archive whose digest
\* equals the selected PackageSpec.checksum, and an archive whose digest
\* differs leaves nothing written.
C1_ChecksumVerifiedBeforeExtraction ==
    (pc = "extract" /\ via = "install_latest") =>
        /\ Digest(content[1]) = pkg_spec[1].checksum
        /\ (Digest(content[1]) # pkg_spec[1].checksum => written = {})

-----------------------------------------------------------------------------
(* C2 *)

\* C2: every path an install creates or overwrites lies under
\* base_path/package_id, whatever the entry names are; outside that directory
\* the filesystem holds only what PulseManager::new and the startup's
\* ensure_directories make.
C2_WritesStayUnderPackageRoot ==
    /\ \A p \in written : IsPrefix(PackageRoot, p)
    /\ \A p \in DOMAIN fs :
          IsPrefix(PackageRoot, p)
          \/ p \in {<<"DevPulse">>, <<"DevPulse", "bin">>, <<"DevPulse", "config.json">>}
          \/ p \in {<<"userdata">>, <<"userdata", "backups">>, <<"drivers">>, <<"logs">>}

\* an entry named ../../evil has been extracted, to postgres-15/evil
C2_Witness ==
    /\ pc = "extract"
    /\ idx = 2
    /\ content[1][1].name = <<ParentDir, ParentDir, "evil">>
    /\ Append(PackageRoot, "evil") \in written

-----------------------------------------------------------------------------
(* C3 *)

\* C3: the step that extracts an entry whose name resolves outside the target
\* root ends the install with a PathTraversal error and leaves the
\* filesystem as it was.
C3_TraversalEntryRejected ==
    [][ (pc = "extract" /\ Escapes(content[1][idx]) /\ <<pc, idx>>' # <<pc, idx>>)
          => (fs' = fs /\ ExtractionResult' = Some(Err("PathTraversal"))) ]_vars

-----------------------------------------------------------------------------
(* C4 *)

\* what C4 needs of a request whose tier 1 has answered: the install goes on
\* to the manifest fetch without returning, after a failure the manifest is
\* fetched from the static URL, after a success from the URL returned
C4_Common ==
    tier1 # None =>
        /\ pc \in {"fetch_manifest", "select", "gh_list"}
        /\ pc = "fetch_manifest" => (latestResult = None /\ result = None)
        /\ latestResult # None => RequestsTo("manifest") # {}
        /\ \A i \in RequestsTo("manifest") :
              /\ ~tier1[1].ok => requests[i].url = STATIC_URL
              /\ tier1[1].ok => requests[i].url = tier1[1].v

\* C4 as claimed: every tier-1 failure is non-fatal and leads to the static
\* URL, a tier-1 success to the returned URL, and the static URL is fetched
\* if and only if tier 1 failed.
C4_Original ==
    /\ C4_Common
    /\ tier1 # None =>
          \A i \in RequestsTo("manifest") :
              requests[i].url = STATIC_URL <=> ~tier1[1].ok

\* C4 as amended: every tier-1 failure is non-fatal and leads to the static
\* URL, and a tier-1 success leads to exactly the URL the control plane
\* returned (which may be the static URL itself).
C4_Amended == C4_Common

\* tier 1 failed on a row without a string manifest_url and the static
\* manifest has been fetched
C4_Witness ==
    /\ tier1 = Some(Err("Invalid Manifest URL"))
    /\ pc = "select"
    /\ requests[2] = Request("manifest", STATIC_URL)

-----------------------------------------------------------------------------
(* C5 *)

\* C5: a request queries the control plane at most once, as its first
\* request, and after a query that returned zero rows the manifest is
\* fetched from the static URL.
C5_ControlPlaneQueriedOnce ==
    /\ Cardinality(RequestsTo("control_plane")) <= 1
    /\ \A i \in RequestsTo("control_plane") : i = 1
    /\ tier1 = Some(Err("No active release found for this channel.")) =>
          /\ manifest_url = STATIC_URL
          /\ pc \in {"fetch_manifest", "select", "gh_list"}
          /\ \A i \in RequestsTo("manifest") : requests[i].url = STATIC_URL

\* zero rows, then the static manifest fetched and parsed
C5_Witness ==
    /\ tier1 = Some(Err("No active release found for this channel."))
    /\ pc = "select"
    /\ Len(requests) = 2
    /\ requests[2].url = STATIC_URL

-----------------------------------------------------------------------------
(* C6 *)

\* C6 as claimed: a request whose manifest-based install failed does not
\* query the release-listing endpoint.
C6_Original ==
    Failed(latestResult) => RequestsTo("release_listing") = {}

\* C6 as amended: install_latest itself never queries the release-listing
\* endpoint; install_drivers queries it, once, exactly when install_latest
\* has returned an error.
C6_Amended ==
    /\ via = "install_latest" => RequestsTo("release_listing") = {}
    /\ RequestsTo("release_listing") # {} =>
          (Failed(latestResult) /\ Cardinality(RequestsTo("release_listing")) = 1)
    /\ (pc = "done" /\ Failed(latestResult)) => RequestsTo("release_listing") # {}

\* install_latest failed and the release listing has been queried
C6_Witness ==
    /\ pc = "done"
    /\ Failed(latestResult)
    /\ RequestsTo("release_listing") # {}

-----------------------------------------------------------------------------
(* C7 *)

\* the three source tiers have all been tried: the control plane queried,
\* the static manifest fetched, the release listing queried
AllTiersAttempted ==
    /\ RequestsTo("control_plane") # {}
    /\ \E i \in RequestsTo("manifest") : requests[i].url = STATIC_URL
    /\ RequestsTo("release_listing") # {}

\* C7 as claimed: an error is returned only after every source tier has been
\* attempted and has failed, and it is the error of the last-tried source.
C7_Original ==
    (pc = "done" /\ Failed(result)) =>
        /\ AllTiersAttempted
        /\ Failed(ghResult) /\ result = ghResult

\* C7 as amended: an error is returned only after install_latest (control
\* plane, then one manifest fetch) and install_from_github have both run and
\* failed; the request returns Ok exactly when one of the two returned Ok;
\* the error returned is install_from_github's.
C7_Amended ==
    pc = "done" =>
        /\ result # None
        /\ Failed(result) =>
              /\ Failed(latestResult)
              /\ Failed(ghResult) /\ result = ghResult
              /\ RequestsTo("control_plane") # {}
              /\ RequestsTo("manifest") # {}
              /\ RequestsTo("release_listing") # {}
        /\ Succeeded(result) <=> (Succeeded(latestResult) \/ Succeeded(ghResult))
        /\ Succeeded(result) => result = Some(Ok("INSTALLED"))

\* both installs failed, for different reasons, and the second is returned
C7_Witness ==
    /\ pc = "done"
    /\ Failed(result)
    /\ Failed(latestResult)
    /\ latestResult # ghResult

-----------------------------------------------------------------------------
(* C8 *)

PackageIds == {"postgres-15", "postgres-16"}

BinaryNames == {"pg_dump.exe", "psql.exe", "evil"}

-----------------------------------------------------------------------------
(* C9 *)

\* the probe binary is on disk in one of the three layouts
ProbeOnDisk ==
    \E p \in { <<"DevPulse", "bin", "postgres-15", "pg_dump.exe">>,
               <<"DevPulse", "bin", "postgres-15", "bin", "pg_dump.exe">>,
               <<"DevPulse", "bin", "postgres-15", "pgsql", "bin", "pg_dump.exe">> } :
        p \in DOMAIN fs

\* C9: the package check_driver_status has just computed is INSTALLED /
\* "detected" if the probe binary resolves in the filesystem as it is now,
\* and MISSING / "none" otherwise.
C9_StatusFromFilesystem ==
    pkg # None =>
        pkg[1] = IF ProbeOnDisk
                 THEN [id |-> "postgres-15", version |-> "detected", status |-> "INSTALLED"]
                 ELSE [id |-> "postgres-15", version |-> "none", status |-> "MISSING"]

\* the last install wrote the probe binary and returned Ok, the file was
\* removed afterwards, and the status query answers MISSING
C9_Witness ==
    /\ pkg # None
    /\ pkg[1].status = "MISSING"
    /\ result = Some(Ok("INSTALLED"))
    /\ <<"DevPulse", "bin", "postgres-15", "bin", "pg_dump.exe">> \in written

-----------------------------------------------------------------------------
(* C10 *)

\* C10: with a fetched manifest that has no entry for "win32-x64",
\* install_latest goes no further than the package selection, returns the
\* unsupported-platform error, has sent no archive download request and has
\* written nothing.
C10_UnsupportedPlatformNoDownload ==
    (manifest # None /\ "win32-x64" \notin DOMAIN manifest[1].packages) =>
        /\ pc \in {"select", "gh_list"}
        /\ pc = "gh_list" =>
              latestResult = Some(Err("No package found for this OS in manifest"))
        /\ RequestsTo("archive") = {}
        /\ written = {}

\* install_latest has returned the unsupported-platform error
C10_Witness ==
    /\ manifest # None
    /\ "win32-x64" \notin DOMAIN manifest[1].packages
    /\ pc = "gh_list"
    /\ latestResult = Some(Err("No package found for this OS in manifest"))

-----------------------------------------------------------------------------
(* C11 *)

\* C11: the version install_latest reports is "legacy" for a manifest
\* without a channels map, and otherwise the version of the entry for the
\* configured channel (config.channel), or "unknown" when the map has no
\* entry for the configured channel.
C11_VersionOfConfiguredChannel ==
    pc = "select" =>
        version = IF manifest[1].channels = None THEN "legacy"
                  ELSE IF config.channel \in DOMAIN manifest[1].channels[1]
                       THEN manifest[1].channels[1][config.channel].version
                  ELSE "unknown"

-----------------------------------------------------------------------------
(* C12 *)

\* C12: when get_config returns after a save_config(cfg) that returned Ok,
\* with no save in between, it returns Ok(cfg), equal to cfg in channel,
\* supabase_url and supabase_key.
C12_SaveThenLoadRoundTrip ==
    (got # None /\ saved # None) =>
        /\ got[1].ok
        /\ got[1].v.channel = saved[1].channel
        /\ got[1].v.supabase_url = saved[1].supabase_url
        /\ got[1].v.supabase_key = saved[1].supabase_key

\* the config that differs from the defaults in its key only has been saved
\* and loaded again
C12_Witness ==
    /\ saved = Some(KeyedConfig)
    /\ got = Some(Ok(KeyedConfig))

-----------------------------------------------------------------------------
(* C13 *)

\* C13: an install request that starts after a save_config(cfg) returned Ok
\* runs with cfg and builds its control-plane query from cfg.channel,
\* cfg.supabase_url and cfg.supabase_key, also when the application was
\* restarted in between.
C13_InstallReadsSavedConfig ==
    (saved # None /\ pc \notin {"idle", "done"}) =>
        /\ config = saved[1]
        /\ \A i \in RequestsTo("control_plane") :
              requests[i] = ControlPlaneQuery(saved[1])

-----------------------------------------------------------------------------
(* C14 *)

\* C14: a config load never fails, on either load path.  When get_config
\* has returned, it returned Ok, config.json exists (the defaults were
\* written if it was absent), and the value is the defaults unless the file
\* holds a config; when PulseManager::new has run for an install request,
\* its config.json exists and the config is the defaults unless the file
\* holds a config.
C14_LoadNeverFails ==
    /\ got # None =>
          /\ got[1].ok
          /\ IsFile(fs, get_config_path(fs))
          /\ got[1].v = unwrap_or_default(from_str(fs[get_config_path(fs)]))
    /\ pc = "resolve" =>
          /\ IsFile(fs, config_path)
          /\ config = unwrap_or_default(from_str(fs[config_path]))

-----------------------------------------------------------------------------
(* C15 *)

\* the asset names that contain "windows" in any letter case and end with
\* ".zip"
QualifyingNames ==
    { <<"pg15-", "windows", ".zip">>, <<"pg15-", "Windows", ".zip">> }

\* the positions of the release's qualifying assets
Qualifying(assets) == {i \in DOMAIN assets : assets[i].name \in QualifyingNames}

\* C15: the step that selects from a parsed release listing hands to the
\* download the URL of the first asset, in listing order, whose name contains
\* "windows" (case-insensitively) and ends with ".zip"; with no such asset it
\* makes install_from_github return the no-matching-asset error, ending the
\* request with no further HTTP request; and an archive requested after the
\* listing is always a qualifying asset.
C15_FirstQualifyingAssetDownloaded ==
    /\ [][ pc = "gh_select" =>
              LET assets == release[1]
                  Q == Qualifying(assets)
              IN  IF Q = {}
                  THEN /\ pc' = "done"
                       /\ ghResult' = Some(Err("No windows compatible asset found in release"))
                       /\ result' = ghResult'
                       /\ requests' = requests
                  ELSE /\ pc' = "download"
                       /\ \E i \in Q :
                             /\ \A j \in Q : i <= j
                             /\ url' = assets[i].browser_download_url ]_vars
    /\ []( /\ pc = "download" /\ via = "install_from_github" =>
                \E a \in AssetPool :
                   a.name \in QualifyingNames /\ url = a.browser_download_url
           /\ \A i \in RequestsTo("archive"), j \in RequestsTo("release_listing") :
                i > j => \E a \in AssetPool :
                            /\ a.name \in QualifyingNames
                            /\ requests[i].url = a.browser_download_url )

\* the asset named pg15-Windows.zip of a release has been selected and its
\* URL downloaded
C15_Witness ==
    /\ pc = "extract"
    /\ via = "install_from_github"
    /\ url = "https://github.example/a2"
    /\ requests[Len(requests)] = Request("archive", "https://github.example/a2")

-----------------------------------------------------------------------------
(* C18 *)

\* C18: an archive download answered with a non-2xx status makes the install
\* return an error: download_and_extract reaches its extraction loop only
\* with a 2xx response, so nothing of a non-2xx body is ever extracted.
C18_NonSuccessDownloadIsAnError ==
    pc = "extract" => status \in 200..299

-----------------------------------------------------------------------------
(* C19 *)

\* the package directory and everything below it, as the filesystem has it
StoreOf(f) == [p \in {q \in DOMAIN f : IsPrefix(PackageRoot, q)} |-> f[p]]

\* the stages of a request before the extraction loop
PreExtraction ==
    {"resolve", "fetch_manifest", "select", "gh_list", "gh_select", "download"}

\* the errors install_latest and install_from_github return without having
\* entered the extraction loop
PreExtractionErrors ==
    { "network error", "Manifest Unreachable", "json error",
      "No package found for this OS in manifest", "GitHub API Error",
      "No windows compatible asset found in release", "invalid Zip archive" }

FailedBeforeExtraction(r) == Failed(r) /\ r[1].v \in PreExtractionErrors

\* C19: the start of a request and every step of it before the extraction
\* loop leave the package directory root/package_id exactly as it was and
\* write nothing, so files are written only after the archive has been
\* downloaded and opened; a request whose installs have all failed before
\* extraction has written nothing.
C19_NoWriteBeforeExtraction ==
    /\ [][ (pc \in PreExtraction \/ pc' = "resolve") =>
              /\ StoreOf(fs') = StoreOf(fs)
              /\ pc \in PreExtraction => written' = written ]_vars
    /\ []( ( /\ FailedBeforeExtraction(latestResult)
             /\ pc # "extract"
             /\ ghResult # None => FailedBeforeExtraction(ghResult) )
           => written = {} )

\* both installs of a request failed before extraction (the manifest was
\* unreachable, the asset was not a zip archive) on a package directory that
\* an earlier install had populated, and nothing was written
C19_Witness ==
    /\ pc = "done"
    /\ latestResult = Some(Err("Manifest Unreachable"))
    /\ ghResult = Some(Err("invalid Zip archive"))
    /\ written = {}
    /\ <<"DevPulse", "bin", "postgres-15", "bin", "pg_dump.exe">> \in DOMAIN fs

-----------------------------------------------------------------------------
(* C17 *)

\* C17: a step of the extraction loop leaves every path that was there in
\* place, and unchanged unless it is the file the entry names; when the
\* step succeeds on a file entry, root/package_id/<entry name> holds the
\* entry's content afterwards, whatever it held before; and extracting the
\* archive a second time, on the store a full extraction of it leaves,
\* changes nothing.
C17_ReinstallOverwritesAndKeeps ==
    /\ [][ pc = "extract" =>
              LET entry == content[1][idx]
                  named == PackageRoot \o entry.name
              IN  /\ \A p \in DOMAIN fs :
                        /\ p \in DOMAIN fs'
                        /\ (p # named \/ entry.dir) => fs'[p] = fs[p]
                  /\ (~entry.dir /\ ExtractionResult' # Some(Err("fs error")))
                        => (named \in DOMAIN fs' /\ fs'[named] = entry.data) ]_vars
    /\ []( (pc = "extract" /\ idx = 1) =>
             LET once == extract_from(fs, PackageRoot, content[1], 1)
             IN  once.ok => extract_from(once.v, PackageRoot, content[1], 1) = once )

\* an install has returned Ok having written bin/pg_dump.exe only, with the
\* content of the second release, into a bin/ that an earlier install made;
\* bin/psql.exe of the earlier install is still there
C17_Witness ==
    /\ pc = "done"
    /\ Succeeded(ExtractionResult)
    /\ written = {<<"DevPulse", "bin", "postgres-15", "bin", "pg_dump.exe">>}
    /\ <<"DevPulse", "bin", "postgres-15", "bin", "pg_dump.exe">> \in DOMAIN fs
    /\ fs[<<"DevPulse", "bin", "postgres-15", "bin", "pg_dump.exe">>] = NewFileData
    /\ <<"DevPulse", "bin", "postgres-15", "bin", "psql.exe">> \in DOMAIN fs
    /\ fs[<<"DevPulse", "bin", "postgres-15", "bin", "psql.exe">>] = FileData

-----------------------------------------------------------------------------
(* C16 *)

=============================================================================
